---- MODULE Spec2Model ----
(***************************************************************************)
(* State-machine model of MemStorage (src/server/storage.ts): the table    *)
(* store, the reservation store, the table-status synchronisation done by  *)
(* createReservation / deleteReservation and the composite query           *)
(* getTablesWithReservations.                                              *)
(*                                                                         *)
(* A JavaScript Map is a sequence of <<key, value>> pairs in insertion     *)
(* order.  A nullable string is JSNull or JSString(s); an optional field   *)
(* of an input object that is omitted is a field missing from the record's *)
(* DOMAIN.  The wall clock `now` counts days; toISODate is the conversion  *)
(* new Date().toISOString().split('T')[0].  Table names are the seed's     *)
(* Russian names transliterated to ASCII.                                  *)
(*                                                                         *)
(* The constructor reads the clock once for the date of the sample         *)
(* reservations (line 81) and once more for each one's createdAt (line     *)
(* 128).  It is one synchronous run, during which midnight passes at most  *)
(* once: between any two of the reads, or between the last one and the     *)
(* return.  Init is the state at the return, for each of these cases.      *)
(*                                                                         *)
(* A method without an await is one step.  A method with awaits is one     *)
(* step from its call to its first await, one step from each await to the  *)
(* next, and one step from its last await to its return: createReservation *)
(* (await at line 215), deleteReservation (lines 237 and 244) and          *)
(* getTablesWithReservations (line 251, and line 257 once per table).      *)
(* tasks holds the calls suspended at an await, each with the await it is  *)
(* at and its local variables; a call leaves tasks when it returns.        *)
(* lastCall records the call that returned last: its name, its arguments,  *)
(* the value it returned and the instant at which it computed its date     *)
(* (the instant of the call for a method that reads no clock); steps       *)
(* counts the calls started and the clock ticks of the run.                *)
(*                                                                         *)
(* In Spec the caller awaits each call before it makes the next one: a     *)
(* call starts only when no call is suspended; the clock passes midnight   *)
(* at any instant, also while a call is suspended.  In SpecSync and        *)
(* SpecConc a call starts whether or not the calls before it have          *)
(* returned, the suspended calls resume in any order, and the day is       *)
(* fixed.                                                                  *)
(***************************************************************************)
EXTENDS Integers, Sequences, FiniteSets, TLC

VARIABLES tables, reservations, currentTableId, currentReservationId, now, lastCall, steps, tasks

vars == <<tables, reservations, currentTableId, currentReservationId, now, lastCall, steps, tasks>>

store == <<tables, reservations, currentTableId, currentReservationId>>

-----------------------------------------------------------------------------
(* Bounds of the model *)

\* the number of calls and clock ticks of a run
MaxSteps == 2

\* the number of calls suspended at an await at one time
MaxTasks == 2

\* the day on which the constructor starts, as an index of the calendar below
StartNow == 1

-----------------------------------------------------------------------------
(* JavaScript values *)

JSUndefined == [t |-> "undefined"]

JSNull == [t |-> "null"]

JSString(s) == [t |-> "string", v |-> s]

\* x || d for a nullable / optional string field
FalsyNullable(x) == x = JSUndefined \/ x = JSNull \/ x = JSString("")

\* obj.f || d, for a field holding a nullable string
OrNullable(obj, f, d) ==
  IF f \notin DOMAIN obj THEN d
  ELSE IF FalsyNullable(obj[f]) THEN d ELSE obj[f]

\* obj.f || d, for a field holding a plain string (an enum)
OrString(obj, f, d) ==
  IF f \notin DOMAIN obj THEN d
  ELSE IF obj[f] = "" THEN d ELSE obj[f]

\* obj.f || d, for a field holding a number
OrNumber(obj, f, d) ==
  IF f \notin DOMAIN obj THEN d
  ELSE IF obj[f] = 0 THEN d ELSE obj[f]

\* obj.f || d, for a field holding a boolean
OrBoolean(obj, f, d) ==
  IF f \notin DOMAIN obj THEN d
  ELSE IF obj[f] = FALSE THEN d ELSE obj[f]

\* { ...a, ...b }
Spread(a, b) ==
  [f \in (DOMAIN a) \cup (DOMAIN b) |-> IF f \in DOMAIN b THEN b[f] ELSE a[f]]

-----------------------------------------------------------------------------
(* Map<number, V> in insertion order *)

MapKeys(m) == {m[i][1] : i \in 1..Len(m)}

MapHas(m, k) == k \in MapKeys(m)

MapIndex(m, k) == CHOOSE i \in 1..Len(m) : m[i][1] = k

MapGet(m, k) == IF MapHas(m, k) THEN m[MapIndex(m, k)][2] ELSE JSUndefined

\* set keeps the position of an existing key and appends a new one
MapSet(m, k, v) ==
  IF MapHas(m, k) THEN [m EXCEPT ![MapIndex(m, k)] = <<k, v>>]
  ELSE Append(m, <<k, v>>)

MapDelete(m, k) == SelectSeq(m, LAMBDA e : e[1] # k)

\* Array.from(m.values())
MapValues(m) == [i \in 1..Len(m) |-> m[i][2]]

\* find returning the last match
FindActive_Last(s) ==
  IF \E i \in 1..Len(s) : s[i].status = "active"
  THEN s[CHOOSE i \in 1..Len(s) :
           s[i].status = "active" /\ \A j \in (i + 1)..Len(s) : s[j].status # "active"]
  ELSE JSUndefined

\* s.find(r => r.status === "active"): the first match, or undefined
FindActive(s) ==
  IF \E i \in 1..Len(s) : s[i].status = "active"
  THEN s[CHOOSE i \in 1..Len(s) :
           s[i].status = "active" /\ \A j \in 1..(i - 1) : s[j].status # "active"]
  ELSE JSUndefined

-----------------------------------------------------------------------------
(* The clock *)

ISODates ==
  <<"2024-01-01", "2024-01-02", "2024-01-03", "2024-01-04", "2024-01-05",
    "2024-01-06", "2024-01-07", "2024-01-08", "2024-01-09", "2024-01-10">>

\* new Date().toISOString().split('T')[0] at instant t
toISODate(t) == ISODates[t + 1]

Today == toISODate(now)

-----------------------------------------------------------------------------
(* Construction: the default tables and the sample reservations *)

SeedTable(number, name, capacity, x, y, width, height, status, shape, hallId) ==
  [number |-> number, name |-> JSString(name), capacity |-> capacity,
   x |-> x, y |-> y, width |-> width, height |-> height,
   status |-> status, shape |-> shape, hallId |-> hallId]

defaultTables ==
  << SeedTable(1, "Osnovnoy", 2, 50, 80, 60, 60, "available", "round", "white"),
     SeedTable(2, "U okna", 2, 150, 80, 60, 60, "reserved", "round", "white"),
     SeedTable(3, "Semeyny", 4, 250, 80, 80, 60, "occupied", "rectangular", "white"),
     SeedTable(4, "Bolshoy", 6, 50, 200, 100, 60, "available", "rectangular", "white"),
     SeedTable(5, "Barnaya stoyka", 2, 50, 80, 60, 60, "reserved", "round", "bar"),
     SeedTable(6, "Vysoky", 4, 150, 80, 80, 60, "available", "rectangular", "bar"),
     SeedTable(7, "Kokteylny", 2, 250, 80, 60, 60, "occupied", "round", "bar"),
     SeedTable(8, "Pod arkoy", 6, 100, 120, 100, 60, "available", "rectangular", "vaulted"),
     SeedTable(9, "Tsentralny", 8, 250, 120, 120, 80, "reserved", "rectangular", "vaulted"),
     SeedTable(10, "Ugolok", 4, 50, 250, 80, 60, "available", "rectangular", "vaulted"),
     SeedTable(11, "Tikhy", 2, 80, 100, 60, 60, "available", "round", "fourth"),
     SeedTable(12, "Delovoy", 4, 180, 100, 80, 60, "reserved", "rectangular", "fourth"),
     SeedTable(13, "Prezidium", 10, 100, 150, 140, 100, "reserved", "rectangular", "banquet"),
     SeedTable(14, "Glavny", 12, 300, 150, 160, 100, "available", "rectangular", "banquet"),
     SeedTable(15, "Prazdnichny", 8, 50, 300, 120, 80, "occupied", "rectangular", "banquet") >>

\* the sample reservations, dated `today`
sampleReservations(today) ==
  << [tableId |-> 2, customerName |-> "Ivan Smirnov", customerPhone |-> "+7 (999) 123-45-67",
      guests |-> 4, date |-> today, time |-> "19:30", duration |-> 120,
      comment |-> JSString("Okno, pozhaluysta. Den rozhdeniya!"), status |-> "active"],
     [tableId |-> 3, customerName |-> "Mariya Kozlova", customerPhone |-> "+7 (999) 765-43-21",
      guests |-> 2, date |-> today, time |-> "12:15", duration |-> 90,
      comment |-> JSString(""), status |-> "active"],
     [tableId |-> 5, customerName |-> "Anna Sidorova", customerPhone |-> "+7 (999) 456-78-90",
      guests |-> 4, date |-> today, time |-> "19:15", duration |-> 120,
      comment |-> JSString(""), status |-> "active"] >>

\* the record built for a default table: { ...table, id, name, status, shape, hallId }
NewDefaultTable(table, id) ==
  Spread(table,
         [id |-> id,
          name |-> OrNullable(table, "name", JSNull),
          status |-> OrString(table, "status", "available"),
          shape |-> OrString(table, "shape", "round"),
          hallId |-> OrString(table, "hallId", "white")])

\* the record built for a sample reservation
NewSampleReservation(reservation, id, t) ==
  Spread(reservation,
         [id |-> id,
          status |-> OrString(reservation, "status", "active"),
          duration |-> OrNumber(reservation, "duration", 120),
          comment |-> OrNullable(reservation, "comment", JSNull),
          hasTimeLimit |-> FALSE,
          startTime |-> JSNull,
          endTime |-> JSNull,
          createdAt |-> t])

\* the store after new MemStorage(): both counters start at 1 and forEach assigns
\* consecutive ids.  The clock is read at instant t for `today` (line 81) and again
\* for each sample reservation's createdAt (line 128): createdAt[i] is the instant
\* read for the i-th one
initializeDefaultTables(t, createdAt) ==
  [tables |-> [i \in 1..Len(defaultTables) |-> <<i, NewDefaultTable(defaultTables[i], i)>>],
   reservations |->
     [i \in 1..Len(sampleReservations(toISODate(t))) |->
        <<i, NewSampleReservation(sampleReservations(toISODate(t))[i], i, createdAt[i])>>],
   currentTableId |-> 1 + Len(defaultTables),
   currentReservationId |-> 1 + Len(sampleReservations(toISODate(t)))]

\* the store of a construction during which no midnight passes
SeededStore ==
  initializeDefaultTables(StartNow, [i \in 1..Len(sampleReservations(toISODate(StartNow))) |-> StartNow])

\* the days of the constructor's run: it is one synchronous run, during which
\* midnight passes at most once
ConstructionDays == {StartNow, StartNow + 1}

\* the instants of the constructor's clock reads and of its return: the clock does not
\* go back, and the midnight may pass between any two of them
ConstructionClocks ==
  {c \in [today : {StartNow},
          createdAt : [1..Len(sampleReservations(toISODate(StartNow))) -> ConstructionDays],
          end : ConstructionDays] :
     /\ \A i \in DOMAIN c.createdAt :
          /\ c.today <= c.createdAt[i]
          /\ c.createdAt[i] <= c.end
          /\ \A j \in DOMAIN c.createdAt : i <= j => c.createdAt[i] <= c.createdAt[j]}

Init ==
  \E c \in ConstructionClocks :
    /\ now = c.end
    /\ tables = initializeDefaultTables(c.today, c.createdAt).tables
    /\ reservations = initializeDefaultTables(c.today, c.createdAt).reservations
    /\ currentTableId = initializeDefaultTables(c.today, c.createdAt).currentTableId
    /\ currentReservationId = initializeDefaultTables(c.today, c.createdAt).currentReservationId
    /\ lastCall = [op |-> "constructor", arg |-> <<>>, ret |-> JSUndefined, at |-> c.today]
    /\ steps = 0
    /\ tasks = <<>>

-----------------------------------------------------------------------------
(* The methods of MemStorage, as functions of the store S (a record of the *)
(* four fields) and the call's arguments; each yields the store after the  *)
(* call and the value returned.                                            *)

Store ==
  [tables |-> tables, reservations |-> reservations,
   currentTableId |-> currentTableId, currentReservationId |-> currentReservationId]

\* Array.from(this.tables.values())
getTables(S) == MapValues(S.tables)

getTable(S, id) == MapGet(S.tables, id)

getReservations(S) == MapValues(S.reservations)

getReservation(S, id) == MapGet(S.reservations, id)

getReservationsByDate(S, date) ==
  SelectSeq(MapValues(S.reservations), LAMBDA reservation : reservation.date = date)

getReservationsByTable(S, tableId) ==
  SelectSeq(MapValues(S.reservations), LAMBDA reservation : reservation.tableId = tableId)

\* createTable ignoring a supplied status
newTable_AlwaysAvailable(table, id) ==
  [id |-> id,
   number |-> table.number,
   name |-> OrNullable(table, "name", JSNull),
   capacity |-> table.capacity,
   x |-> table.x,
   y |-> table.y,
   width |-> table.width,
   height |-> table.height,
   status |-> "available",
   shape |-> OrString(table, "shape", "round"),
   hallId |-> OrString(table, "hallId", "white")]

\* the record createTable builds
newTable(table, id) ==
  [id |-> id,
   number |-> table.number,
   name |-> OrNullable(table, "name", JSNull),
   capacity |-> table.capacity,
   x |-> table.x,
   y |-> table.y,
   width |-> table.width,
   height |-> table.height,
   status |-> OrString(table, "status", "available"),
   shape |-> OrString(table, "shape", "round"),
   hallId |-> OrString(table, "hallId", "white")]

createTable(S, table) ==
  LET id == S.currentTableId
  IN  [store |-> [S EXCEPT !.currentTableId = id + 1,
                           !.tables = MapSet(S.tables, id, newTable(table, id))],
       ret |-> newTable(table, id)]

\* updateTable merging in the wrong order: { ...updates, ...table }
updateTable_Reversed(S, id, updates) ==
  LET table == MapGet(S.tables, id)
      updatedTable == Spread(updates, table)
  IN  IF table = JSUndefined
      THEN [store |-> S, ret |-> JSUndefined]
      ELSE [store |-> [S EXCEPT !.tables = MapSet(S.tables, id, updatedTable)],
            ret |-> updatedTable]

\* updateTable without the not-found return: a missing table is created
updateTable_Upsert(S, id, updates) ==
  LET table == IF MapHas(S.tables, id) THEN MapGet(S.tables, id) ELSE [id |-> id]
      updatedTable == Spread(table, updates)
  IN  [store |-> [S EXCEPT !.tables = MapSet(S.tables, id, updatedTable)],
       ret |-> updatedTable]

updateTable(S, id, updates) ==
  LET table == MapGet(S.tables, id)
      updatedTable == Spread(table, updates)
  IN  IF table = JSUndefined
      THEN [store |-> S, ret |-> JSUndefined]
      ELSE [store |-> [S EXCEPT !.tables = MapSet(S.tables, id, updatedTable)],
            ret |-> updatedTable]

updateTableStatus(S, id, status) == updateTable(S, id, [status |-> status])

\* the record createReservation builds at instant t
newReservation(reservation, id, t) ==
  [id |-> id,
   tableId |-> reservation.tableId,
   customerName |-> reservation.customerName,
   customerPhone |-> reservation.customerPhone,
   guests |-> reservation.guests,
   date |-> reservation.date,
   time |-> reservation.time,
   duration |-> OrNumber(reservation, "duration", 120),
   comment |-> OrNullable(reservation, "comment", JSNull),
   status |-> OrString(reservation, "status", "active"),
   hasTimeLimit |-> OrBoolean(reservation, "hasTimeLimit", FALSE),
   startTime |-> OrNullable(reservation, "startTime", JSNull),
   endTime |-> OrNullable(reservation, "endTime", JSNull),
   createdAt |-> t]

\* createReservation marking the table only for a reservation dated today
createReservation_OnlyToday(S, reservation, t) ==
  LET id == S.currentReservationId
      S1 == [S EXCEPT !.currentReservationId = id + 1,
                      !.reservations = MapSet(S.reservations, id, newReservation(reservation, id, t))]
  IN  [store |-> IF reservation.date = toISODate(t)
                 THEN updateTableStatus(S1, reservation.tableId, "reserved").store
                 ELSE S1,
       ret |-> newReservation(reservation, id, t)]

\* createReservation taking the number of stored reservations plus one as the id
createReservation_SizeAsId(S, reservation, t) ==
  LET id == Len(S.reservations) + 1
      S1 == [S EXCEPT !.currentReservationId = id + 1,
                      !.reservations = MapSet(S.reservations, id, newReservation(reservation, id, t))]
  IN  [store |-> updateTableStatus(S1, reservation.tableId, "reserved").store,
       ret |-> newReservation(reservation, id, t)]

createReservation(S, reservation, t) ==
  LET id == S.currentReservationId
      S1 == [S EXCEPT !.currentReservationId = id + 1,
                      !.reservations = MapSet(S.reservations, id, newReservation(reservation, id, t))]
  IN  [store |-> updateTableStatus(S1, reservation.tableId, "reserved").store,
       ret |-> newReservation(reservation, id, t)]

\* updateReservation storing the updates in place of the merged record
updateReservation_Replace(S, id, updates) ==
  LET reservation == MapGet(S.reservations, id)
  IN  IF reservation = JSUndefined
      THEN [store |-> S, ret |-> JSUndefined]
      ELSE [store |-> [S EXCEPT !.reservations = MapSet(S.reservations, id, updates)],
            ret |-> updates]

\* updateReservation marking the reservation's table reserved again
updateReservation_Resync(S, id, updates) ==
  LET reservation == MapGet(S.reservations, id)
      updatedReservation == Spread(reservation, updates)
      S1 == [S EXCEPT !.reservations = MapSet(S.reservations, id, updatedReservation)]
  IN  IF reservation = JSUndefined
      THEN [store |-> S, ret |-> JSUndefined]
      ELSE [store |-> updateTableStatus(S1, updatedReservation.tableId, "reserved").store,
            ret |-> updatedReservation]

updateReservation(S, id, updates) ==
  LET reservation == MapGet(S.reservations, id)
      updatedReservation == Spread(reservation, updates)
  IN  IF reservation = JSUndefined
      THEN [store |-> S, ret |-> JSUndefined]
      ELSE [store |-> [S EXCEPT !.reservations = MapSet(S.reservations, id, updatedReservation)],
            ret |-> updatedReservation]

\* deleteReservation removing every reservation of the deleted one's table
deleteReservationEnter_Cascade(S, id, t) ==
  LET reservation == MapGet(S.reservations, id)
      S1 == [S EXCEPT !.reservations =
               SelectSeq(S.reservations, LAMBDA e : e[2].tableId # reservation.tableId)]
  IN  IF reservation = JSUndefined
      THEN [store |-> S, done |-> TRUE, ret |-> FALSE, loc |-> [reservation |-> reservation]]
      ELSE [store |-> S1, done |-> FALSE, ret |-> JSUndefined,
            loc |-> [reservation |-> reservation,
                     today |-> toISODate(t),
                     tableReservations |-> getReservationsByTable(S1, reservation.tableId)]]

\* deleteReservation reporting success for an id that is not stored
deleteReservationEnter_NoNotFound(S, id, t) ==
  LET reservation == MapGet(S.reservations, id)
      S1 == [S EXCEPT !.reservations = MapDelete(S.reservations, id)]
  IN  IF reservation = JSUndefined
      THEN [store |-> S, done |-> TRUE, ret |-> TRUE, loc |-> [reservation |-> reservation]]
      ELSE [store |-> S1, done |-> FALSE, ret |-> JSUndefined,
            loc |-> [reservation |-> reservation,
                     today |-> toISODate(t),
                     tableReservations |-> getReservationsByTable(S1, reservation.tableId)]]

\* deleteReservation up to `await this.getReservationsByTable(...)`: `return false`
\* for an id that is not stored; otherwise the record is deleted, and today and the
\* table's remaining reservations are read into the locals loc
deleteReservationEnter(S, id, t) ==
  LET reservation == MapGet(S.reservations, id)
      S1 == [S EXCEPT !.reservations = MapDelete(S.reservations, id)]
  IN  IF reservation = JSUndefined
      THEN [store |-> S, done |-> TRUE, ret |-> FALSE, loc |-> [reservation |-> reservation]]
      ELSE [store |-> S1, done |-> FALSE, ret |-> JSUndefined,
            loc |-> [reservation |-> reservation,
                     today |-> toISODate(t),
                     tableReservations |-> getReservationsByTable(S1, reservation.tableId)]]

\* deleteReservation counting the table's active reservations of any date
deleteReservationResume_AnyDate(S, loc) ==
  LET activeReservations == SelectSeq(loc.tableReservations, LAMBDA r : r.status = "active")
  IN  IF Len(activeReservations) = 0
      THEN [store |-> updateTableStatus(S, loc.reservation.tableId, "available").store,
            done |-> FALSE]
      ELSE [store |-> S, done |-> TRUE]

\* deleteReservation freeing the table without looking at its other reservations
deleteReservationResume_AlwaysFrees(S, loc) ==
  [store |-> updateTableStatus(S, loc.reservation.tableId, "available").store,
   done |-> FALSE]

\* deleteReservation re-evaluating the table only when the deleted reservation is
\* dated today
deleteReservationResume_OwnDateOnly(S, loc) ==
  LET todayActiveReservations ==
        SelectSeq(loc.tableReservations,
                  LAMBDA r : r.date = loc.today /\ r.status = "active")
  IN  IF loc.reservation.date = loc.today /\ Len(todayActiveReservations) = 0
      THEN [store |-> updateTableStatus(S, loc.reservation.tableId, "available").store,
            done |-> FALSE]
      ELSE [store |-> S, done |-> TRUE]

\* deleteReservation from its first await to `await this.updateTableStatus(...)` or,
\* when an active reservation of today was read, to `return true`; S is the store at
\* the resumption, loc the locals read before the await
deleteReservationResume(S, loc) ==
  LET todayActiveReservations ==
        SelectSeq(loc.tableReservations,
                  LAMBDA r : r.date = loc.today /\ r.status = "active")
  IN  IF Len(todayActiveReservations) = 0
      THEN [store |-> updateTableStatus(S, loc.reservation.tableId, "available").store,
            done |-> FALSE]
      ELSE [store |-> S, done |-> TRUE]

\* deleteReservation awaited with no other call running meanwhile
deleteReservation(S, id, t) ==
  LET E == deleteReservationEnter(S, id, t)
  IN  IF E.done
      THEN [store |-> E.store, ret |-> E.ret]
      ELSE [store |-> deleteReservationResume(E.store, E.loc).store, ret |-> TRUE]

\* the date argument ignored
targetDateOf_AlwaysToday(args, t) == toISODate(t)

\* date || today, for the optional parameter: args is <<>> or <<date>>
targetDateOf(args, t) ==
  IF Len(args) = 0 THEN toISODate(t)
  ELSE IF args[1] = "" THEN toISODate(t) ELSE args[1]

\* one iteration of the loop writing a status derived from the entry back to the
\* table store
loopBody_Sync(S, table, tableReservations, targetDate) ==
  LET todayReservations == SelectSeq(tableReservations, LAMBDA r : r.date = targetDate)
      currentReservation == FindActive(todayReservations)
  IN  [store |-> IF currentReservation = JSUndefined
                 THEN S
                 ELSE updateTableStatus(S, table.id, "reserved").store,
       entry |-> Spread(table, [currentReservation |-> currentReservation,
                                todayReservations |-> todayReservations])]

\* one iteration of the loop after its await: filter, find and the entry pushed
loopBody(S, table, tableReservations, targetDate) ==
  LET todayReservations == SelectSeq(tableReservations, LAMBDA r : r.date = targetDate)
      currentReservation == FindActive(todayReservations)
  IN  [store |-> S,
       entry |-> Spread(table, [currentReservation |-> currentReservation,
                                todayReservations |-> todayReservations])]

\* the entry pushed for one table when its reservations are read from S
tableWithReservations(S, table, targetDate) ==
  loopBody(S, table, getReservationsByTable(S, table.id), targetDate).entry

\* getTablesWithReservations awaited with no other call running meanwhile
getTablesWithReservations(S, args, t) ==
  LET allTables == getTables(S)
      targetDate == targetDateOf(args, t)
  IN  [store |-> S,
       ret |-> [i \in 1..Len(allTables) |-> tableWithReservations(S, allTables[i], targetDate)]]

-----------------------------------------------------------------------------
(* Inputs of the calls *)

\* the required fields of an InsertReservation
Booking(tableId, date) ==
  [tableId |-> tableId, customerName |-> "A", customerPhone |-> "1",
   guests |-> 2, date |-> date, time |-> "19:00"]

\* the day before construction, the day of construction and the day after
PastDate == toISODate(StartNow - 1)

SeedDate == toISODate(StartNow)

FutureDate == toISODate(StartNow + 1)

\* tables 1 (available) and 3 (occupied, with sample reservation 2) of the seed;
\* no table has id 0
ReservationInputs ==
  { Booking(1, SeedDate),
    Spread(Booking(1, PastDate),
           [status |-> "cancelled", hasTimeLimit |-> FALSE, startTime |-> JSString("19:00"),
            endTime |-> JSString("21:00"), comment |-> JSString(""), duration |-> 0]),
    Spread(Booking(1, FutureDate),
           [status |-> "active", hasTimeLimit |-> TRUE, startTime |-> JSString("19:00"),
            endTime |-> JSString(""), comment |-> JSString("x"), duration |-> 90]),
    Spread(Booking(3, SeedDate),
           [hasTimeLimit |-> TRUE, startTime |-> JSString("19:00"), endTime |-> JSString("21:00")]),
    Spread(Booking(3, FutureDate), [status |-> "cancelled", startTime |-> JSNull]),
    Booking(3, FutureDate),
    Spread(Booking(0, SeedDate), [status |-> "active", comment |-> JSString("x")]) }

\* Partial<InsertReservation>
ReservationUpdates ==
  { [comment |-> JSString("x")],
    [tableId |-> 1, date |-> FutureDate, status |-> "cancelled"],
    [tableId |-> 3, status |-> "cancelled"],
    [tableId |-> 3, date |-> FutureDate],
    [hasTimeLimit |-> FALSE] }

\* the ids of the calls on reservations: every id assigned so far and the next one
ReservationIdInputs == 1..currentReservationId

\* the ids of the updateReservation calls: sample reservation 1 and the first id
\* assigned after construction, which is not stored until a reservation is created
UpdatedIdInputs == {1, SeededStore.currentReservationId}

TableIdInputs == {0, 1, 3}

TableStatuses == {"available", "reserved", "occupied"}

\* Partial<InsertTable>
TableUpdates ==
  { [status |-> "available"], [name |-> JSString("VIP"), x |-> 10, y |-> 20] }

\* InsertTable
TableInputs ==
  { [number |-> 16, capacity |-> 4, x |-> 10, y |-> 20, width |-> 60, height |-> 60],
    [number |-> 16, name |-> JSString(""), capacity |-> 4, x |-> 10, y |-> 20, width |-> 60,
     height |-> 60, status |-> "occupied", shape |-> "rectangular", hallId |-> "bar"],
    [number |-> 17, name |-> JSString("Terrace"), capacity |-> 2, x |-> 30, y |-> 40,
     width |-> 60, height |-> 60, status |-> "reserved", shape |-> "round", hallId |-> ""] }

\* the date argument of getTablesWithReservations: omitted, empty or a date
DateArgs == { <<>>, <<"">>, <<SeedDate>> }

-----------------------------------------------------------------------------------------------------------------------------------------------------
(* The calls.  An async method runs synchronously up to its first await; a *)
(* callee without an await of its own (getTables, getReservationsByTable,  *)
(* updateTableStatus -> updateTable) runs wholly inside the caller's step, *)
(* and the caller then suspends on its promise.  A step of the model is    *)
(* the code run from the call, or from one await, to the next await or the *)
(* return.  tasks holds the calls that are suspended at an await.          *)

\* a method without an await in its body: the whole call is one step
Call(op, arg, R) ==
  /\ steps < MaxSteps
  /\ steps' = steps + 1
  /\ tables' = R.store.tables
  /\ reservations' = R.store.reservations
  /\ currentTableId' = R.store.currentTableId
  /\ currentReservationId' = R.store.currentReservationId
  /\ lastCall' = [op |-> op, arg |-> arg, ret |-> R.ret, at |-> now]
  /\ UNCHANGED <<now, tasks>>

\* a call that reaches its first await: S is the store it leaves, loc its locals;
\* `at` is the instant at which the call computes its date (lines 210, 236; line 252
\* once the call is resumed there)
Suspend(op, arg, pc, loc, S) ==
  /\ steps < MaxSteps
  /\ Len(tasks) < MaxTasks
  /\ steps' = steps + 1
  /\ tables' = S.tables
  /\ reservations' = S.reservations
  /\ currentTableId' = S.currentTableId
  /\ currentReservationId' = S.currentReservationId
  /\ tasks' = Append(tasks, [op |-> op, arg |-> arg, pc |-> pc, loc |-> loc, at |-> now])
  /\ UNCHANGED <<now, lastCall>>

\* suspended call i runs from its await to the next one
Continue(i, pc, loc, at, S) ==
  /\ tables' = S.tables
  /\ reservations' = S.reservations
  /\ currentTableId' = S.currentTableId
  /\ currentReservationId' = S.currentReservationId
  /\ tasks' = [tasks EXCEPT ![i].pc = pc, ![i].loc = loc, ![i].at = at]
  /\ UNCHANGED <<now, lastCall, steps>>

\* suspended call i runs from its await to its return
Return(i, ret, at, S) ==
  /\ tables' = S.tables
  /\ reservations' = S.reservations
  /\ currentTableId' = S.currentTableId
  /\ currentReservationId' = S.currentReservationId
  /\ tasks' = [k \in 1..(Len(tasks) - 1) |-> IF k < i THEN tasks[k] ELSE tasks[k + 1]]
  /\ lastCall' = [op |-> tasks[i].op, arg |-> tasks[i].arg, ret |-> ret, at |-> at]
  /\ UNCHANGED <<now, steps>>

CreateTable(table) ==
  Call("createTable", <<table>>, createTable(Store, table))

UpdateTable(id, updates) ==
  Call("updateTable", <<id, updates>>, updateTable(Store, id, updates))

UpdateTableStatus(id, status) ==
  Call("updateTableStatus", <<id, status>>, updateTableStatus(Store, id, status))

UpdateReservation(id, updates) ==
  Call("updateReservation", <<id, updates>>, updateReservation(Store, id, updates))

\* createReservation up to `await this.updateTableStatus(...)`: the new record is
\* stored and the table marked, all before the suspension
BeginCreateReservation(reservation) ==
  LET R == createReservation(Store, reservation, now)
  IN  Suspend("createReservation", <<reservation>>, "await215",
              [newReservation |-> R.ret], R.store)

\* `return newReservation`
ResumeCreateReservation(i) ==
  /\ tasks[i].op = "createReservation"
  /\ tasks[i].pc = "await215"
  /\ Return(i, tasks[i].loc.newReservation, tasks[i].at, Store)

\* deleteReservation up to `await this.getReservationsByTable(...)`, or the whole
\* call when the id is not stored
BeginDeleteReservation(id) ==
  LET E == deleteReservationEnter(Store, id, now)
  IN  IF E.done
      THEN Call("deleteReservation", <<id>>, [store |-> E.store, ret |-> E.ret])
      ELSE Suspend("deleteReservation", <<id>>, "await237", E.loc, E.store)

\* the filter of the reservations read before the await, then the table update up to
\* `await this.updateTableStatus(...)`, or `return true`
ResumeDeleteReservation(i) ==
  /\ tasks[i].op = "deleteReservation"
  /\ tasks[i].pc = "await237"
  /\ LET R == deleteReservationResume(Store, tasks[i].loc)
     IN  IF R.done
         THEN Return(i, TRUE, tasks[i].at, R.store)
         ELSE Continue(i, "await244", tasks[i].loc, tasks[i].at, R.store)

\* `return true` after the table update
FinishDeleteReservation(i) ==
  /\ tasks[i].op = "deleteReservation"
  /\ tasks[i].pc = "await244"
  /\ Return(i, TRUE, tasks[i].at, Store)

\* getTablesWithReservations up to `await this.getTables()`: the array of the table
\* objects stored at this instant
BeginGetTablesWithReservations(args) ==
  Suspend("getTablesWithReservations", args, "await251",
          [allTables |-> getTables(Store)], Store)

\* the loop head for allTables[k]: the table's reservations are read from S up to
\* the await, or, after the last table, `return tablesWithReservations`
LoopHead(i, loc, at, k, S) ==
  IF k > Len(loc.allTables)
  THEN Return(i, loc.tablesWithReservations, at, S)
  ELSE Continue(i, "await257",
                Spread(loc, [k |-> k,
                             tableReservations |->
                               getReservationsByTable(S, loc.allTables[k].id)]),
                at, S)

\* after `await this.getTables()`: targetDate is computed and the loop entered
ResumeGetTables(i) ==
  /\ tasks[i].op = "getTablesWithReservations"
  /\ tasks[i].pc = "await251"
  /\ LoopHead(i, Spread(tasks[i].loc,
                        [targetDate |-> targetDateOf(tasks[i].arg, now),
                         tablesWithReservations |-> <<>>]), now, 1, Store)

\* the rest of one loop iteration after its await, then the next loop head
ResumeGetReservationsByTable(i) ==
  /\ tasks[i].op = "getTablesWithReservations"
  /\ tasks[i].pc = "await257"
  /\ LET loc == tasks[i].loc
         B == loopBody(Store, loc.allTables[loc.k], loc.tableReservations, loc.targetDate)
     IN  LoopHead(i, [loc EXCEPT !.tablesWithReservations = Append(@, B.entry)],
                  tasks[i].at, loc.k + 1, B.store)

\* the wall clock passes midnight
Tick ==
  /\ steps < MaxSteps
  /\ steps' = steps + 1
  /\ now' = now + 1
  /\ UNCHANGED <<tables, reservations, currentTableId, currentReservationId, lastCall, tasks>>

\* no call is suspended: every call made so far has returned
Idle == tasks = <<>>

\* every call is awaited before the next one is made
Next ==
  \/ Idle /\ \E table \in TableInputs : CreateTable(table)
  \/ Idle /\ \E id \in TableIdInputs, updates \in TableUpdates : UpdateTable(id, updates)
  \/ Idle /\ \E id \in TableIdInputs, status \in TableStatuses : UpdateTableStatus(id, status)
  \/ Idle /\ \E id \in UpdatedIdInputs, updates \in ReservationUpdates :
               UpdateReservation(id, updates)
  \/ Idle /\ \E reservation \in ReservationInputs : BeginCreateReservation(reservation)
  \/ Idle /\ \E id \in ReservationIdInputs : BeginDeleteReservation(id)
  \/ Idle /\ \E args \in DateArgs : BeginGetTablesWithReservations(args)
  \/ \E i \in 1..Len(tasks) : ResumeCreateReservation(i)
  \/ \E i \in 1..Len(tasks) : ResumeDeleteReservation(i)
  \/ \E i \in 1..Len(tasks) : FinishDeleteReservation(i)
  \/ \E i \in 1..Len(tasks) : ResumeGetTables(i)
  \/ \E i \in 1..Len(tasks) : ResumeGetReservationsByTable(i)
  \/ Tick

Spec == Init /\ [][Next]_vars

\* createReservation and deleteReservation calls only, made whether or not the calls
\* before have returned
NextSync ==
  \/ \E reservation \in ReservationInputs : BeginCreateReservation(reservation)
  \/ \E id \in ReservationIdInputs : BeginDeleteReservation(id)
  \/ \E i \in 1..Len(tasks) : ResumeCreateReservation(i)
  \/ \E i \in 1..Len(tasks) : ResumeDeleteReservation(i)
  \/ \E i \in 1..Len(tasks) : FinishDeleteReservation(i)

SpecSync == Init /\ [][NextSync]_vars

\* createReservation, deleteReservation and getTablesWithReservations calls made
\* whether or not the calls before have returned
NextConc ==
  \/ \E reservation \in ReservationInputs : BeginCreateReservation(reservation)
  \/ \E id \in ReservationIdInputs : BeginDeleteReservation(id)
  \/ \E args \in DateArgs : BeginGetTablesWithReservations(args)
  \/ \E i \in 1..Len(tasks) : ResumeCreateReservation(i)
  \/ \E i \in 1..Len(tasks) : ResumeDeleteReservation(i)
  \/ \E i \in 1..Len(tasks) : FinishDeleteReservation(i)
  \/ \E i \in 1..Len(tasks) : ResumeGetTables(i)
  \/ \E i \in 1..Len(tasks) : ResumeGetReservationsByTable(i)

SpecConc == Init /\ [][NextConc]_vars

-----------------------------------------------------------------------------
(* Properties *)

\* the values of a sequence
Range(seq) == {seq[i] : i \in 1..Len(seq)}

\* the stored reservations of table tableId that are dated `today` and active
TodayActive(rs, tableId, today) ==
  {r \in Range(MapValues(rs)) : r.tableId = tableId /\ r.date = today /\ r.status = "active"}

\* suspended call i, a call of method op, runs one step
Resumes(i, op) ==
  /\ tasks' # tasks
  /\ Len(tasks') <= Len(tasks)
  /\ tasks[i].op = op

\* suspended call i, a call of method op, runs its last step and returns
Returns(i, op) ==
  /\ Len(tasks') < Len(tasks)
  /\ tasks[i].op = op

\* C1: when createReservation for an existing table has returned, that table's status
\* is "reserved", whatever the reservation's date and status and the table's status
\* before
C1_CreateMarksTableReserved ==
  (Idle /\ lastCall.op = "createReservation" /\ MapHas(tables, lastCall.arg[1].tableId))
    => getTable(Store, lastCall.arg[1].tableId).status = "reserved"

\* table 3 is occupied at construction; the first call books it for a later day with
\* status cancelled
C1_Witness ==
  /\ Idle
  /\ steps = 1
  /\ lastCall.op = "createReservation"
  /\ lastCall.arg[1].tableId = 3
  /\ lastCall.arg[1].date # toISODate(lastCall.at)
  /\ lastCall.ret.status = "cancelled"
  /\ getTable(Store, 3).status = "reserved"

\* C2: a reservation created with hasTimeLimit false or omitted is stored with
\* startTime and endTime null, whatever startTime / endTime the input carries
C2_NoTimeLimitNoTimes ==
  (Idle /\ lastCall.op = "createReservation"
     /\ ("hasTimeLimit" \notin DOMAIN lastCall.arg[1] \/ lastCall.arg[1].hasTimeLimit = FALSE))
    => /\ getReservation(Store, lastCall.ret.id).startTime = JSNull
       /\ getReservation(Store, lastCall.ret.id).endTime = JSNull

\* C3: when deleteReservation of a stored reservation whose table exists returns, it
\* returns true, and if no remaining reservation of that table is dated today and
\* active the table's status is "available"; today is the day the call read at its
\* start (line 236), also when midnight passes before it returns
C3_DeleteFreesTable ==
  [][\A i \in 1..Len(tasks) :
       (/\ Returns(i, "deleteReservation")
        /\ ResumeDeleteReservation(i) \/ FinishDeleteReservation(i)
        /\ MapHas(tables, tasks[i].loc.reservation.tableId))
       => /\ lastCall'.ret = TRUE
          /\ TodayActive(reservations', tasks[i].loc.reservation.tableId, tasks[i].loc.today) = {}
               => MapGet(tables', tasks[i].loc.reservation.tableId).status = "available"]_vars

\* the first call deletes sample reservation 2, the only reservation of table 3,
\* which is occupied at construction
C3_Witness ==
  /\ Idle
  /\ steps = 1
  /\ lastCall.op = "deleteReservation"
  /\ lastCall.arg = <<2>>
  /\ lastCall.ret = TRUE
  /\ lastCall.at = now
  /\ TodayActive(reservations, 3, Today) = {}
  /\ getTable(Store, 3).status = "available"

\* C4: if another reservation of the table that is dated today (the day the call
\* read at its start) and active remains, no step of deleteReservation changes the
\* table store, and the call returns true
C4_DeleteKeepsBookedTable ==
  [][/\ \A id \in ReservationIdInputs :
          (steps' = steps + 1 /\ BeginDeleteReservation(id)) => tables' = tables
     /\ \A i \in 1..Len(tasks) :
          (/\ Resumes(i, "deleteReservation")
           /\ ResumeDeleteReservation(i) \/ FinishDeleteReservation(i)
           /\ TodayActive(reservations', tasks[i].loc.reservation.tableId, tasks[i].loc.today) # {})
          => /\ tables' = tables
             /\ Returns(i, "deleteReservation")
             /\ lastCall'.ret = TRUE]_vars

\* midnight passed during construction, so that sample reservation 2 of table 3 is
\* dated the day before today; table 3 is booked for today and sample reservation 2
\* is then deleted: the table stays reserved
C4_Witness ==
  /\ Idle
  /\ steps = 2
  /\ lastCall.op = "deleteReservation"
  /\ lastCall.arg = <<2>>
  /\ lastCall.ret = TRUE
  /\ lastCall.at = StartNow + 1
  /\ now = StartNow + 1
  /\ ~MapHas(reservations, 2)
  /\ TodayActive(reservations, 3, Today) # {}
  /\ getTable(Store, 3).status = "reserved"

\* the same with no midnight passed: table 3 is booked a second time for the day of
\* construction and sample reservation 2, dated today, is then deleted
C4_TodayDatedCase ==
  /\ Idle
  /\ steps = 2
  /\ lastCall.op = "deleteReservation"
  /\ lastCall.arg = <<2>>
  /\ lastCall.ret = TRUE
  /\ lastCall.at = StartNow
  /\ now = StartNow
  /\ TodayActive(reservations, 3, Today) # {}
  /\ getTable(Store, 3).status = "reserved"

\* C5 as stated: no step of the deleteReservation of a reservation dated on a day
\* other than today changes its table's status
C5_NonTodayDeleteKeepsStatus ==
  [][\A i \in 1..Len(tasks) :
       (/\ Resumes(i, "deleteReservation")
        /\ ResumeDeleteReservation(i) \/ FinishDeleteReservation(i)
        /\ tasks[i].loc.reservation.date # tasks[i].loc.today)
       => MapGet(tables', tasks[i].loc.reservation.tableId)
            = MapGet(tables, tasks[i].loc.reservation.tableId)]_vars

\* C5 amended: the deleteReservation of a reservation dated on a day other than today
\* leaves its table's status unchanged when another reservation of the table, dated
\* today (the day the call read at its start) and active, remains, and sets it to
\* "available" otherwise
C5_NonTodayDeleteReevaluates ==
  [][/\ \A id \in ReservationIdInputs :
          (steps' = steps + 1 /\ BeginDeleteReservation(id)) => tables' = tables
     /\ \A i \in 1..Len(tasks) :
          /\ (/\ Resumes(i, "deleteReservation")
              /\ ResumeDeleteReservation(i)
              /\ tasks[i].loc.reservation.date # tasks[i].loc.today
              /\ MapHas(tables, tasks[i].loc.reservation.tableId))
             => MapGet(tables', tasks[i].loc.reservation.tableId).status
                  = IF TodayActive(reservations', tasks[i].loc.reservation.tableId, tasks[i].loc.today) = {}
                    THEN "available"
                    ELSE MapGet(tables, tasks[i].loc.reservation.tableId).status
          /\ (Resumes(i, "deleteReservation") /\ FinishDeleteReservation(i))
             => tables' = tables]_vars

\* the clock passes midnight and sample reservation 1, dated the day of
\* construction, is deleted: table 2, reserved at construction, is available
C5_Witness ==
  /\ Idle
  /\ steps = 2
  /\ lastCall.op = "deleteReservation"
  /\ lastCall.arg = <<1>>
  /\ lastCall.ret = TRUE
  /\ lastCall.at = StartNow + 1
  /\ ~MapHas(reservations, 1)
  /\ getTable(Store, 2).status = "available"

\* C6: deleteReservation of an id that is not stored returns false and changes
\* neither store nor either id counter
C6_DeleteMissingIsNoOp ==
  [][\A id \in ReservationIdInputs :
       (/\ ~MapHas(reservations, id)
        /\ steps' = steps + 1
        /\ BeginDeleteReservation(id))
       => /\ lastCall' = [op |-> "deleteReservation", arg |-> <<id>>, ret |-> FALSE, at |-> now]
          /\ tasks' = tasks
          /\ UNCHANGED store]_vars

\* a reservation is deleted and its id is deleted a second time
C6_Witness ==
  /\ Idle
  /\ lastCall.op = "deleteReservation"
  /\ lastCall.ret = FALSE
  /\ lastCall.arg[1] < currentReservationId
  /\ ~MapHas(reservations, lastCall.arg[1])

\* the view has one entry per table, in the order of getTables(), and the entry's
\* todayReservations are exactly the stored reservations of the table dated d
ViewOfDate(view, S, d) ==
  /\ Len(view) = Len(getTables(S))
  /\ \A i \in 1..Len(view) :
       /\ view[i].id = getTables(S)[i].id
       /\ Range(view[i].todayReservations)
            = {r \in Range(getReservations(S)) : r.tableId = view[i].id /\ r.date = d}
       /\ Len(view[i].todayReservations) = Cardinality(Range(view[i].todayReservations))

\* C7 as stated: for any supplied date d, getTablesWithReservations(d) returns one
\* entry per table in the order of getTables(), with exactly the table's
\* reservations dated d
C7_ViewOfSuppliedDate ==
  (Idle /\ lastCall.op = "getTablesWithReservations" /\ Len(lastCall.arg) = 1)
    => ViewOfDate(lastCall.ret, Store, lastCall.arg[1])

\* C7 amended: the same for any supplied date that is not the empty string; for an
\* empty or omitted date the entries hold the reservations dated the day the call
\* read when it computed its target date (line 252)
C7_ViewOfTargetDate ==
  (Idle /\ lastCall.op = "getTablesWithReservations")
    => ViewOfDate(lastCall.ret, Store,
                  IF Len(lastCall.arg) = 1 /\ lastCall.arg # <<"">>
                  THEN lastCall.arg[1]
                  ELSE toISODate(lastCall.at))

\* the view of a supplied date that is not the day of the call holds a reservation,
\* while a reservation of another date is stored
C7_Witness ==
  /\ Idle
  /\ lastCall.op = "getTablesWithReservations"
  /\ Len(lastCall.arg) = 1
  /\ lastCall.arg[1] \notin {"", toISODate(lastCall.at)}
  /\ \E i \in 1..Len(lastCall.ret) : Len(lastCall.ret[i].todayReservations) > 0
  /\ \E r \in Range(getReservations(Store)) : r.date # lastCall.arg[1]

\* C8: no step of getTablesWithReservations changes the table store, the reservation
\* store or an id counter
C8_ViewIsReadOnly ==
  [][/\ \A args \in DateArgs :
          (steps' = steps + 1 /\ BeginGetTablesWithReservations(args)) => UNCHANGED store
     /\ \A i \in 1..Len(tasks) :
          (/\ Resumes(i, "getTablesWithReservations")
           /\ ResumeGetTables(i) \/ ResumeGetReservationsByTable(i))
          => UNCHANGED store]_vars

\* the view is computed while a table has an active reservation on the target date
\* and the status "available"
C8_Witness ==
  /\ Idle
  /\ lastCall.op = "getTablesWithReservations"
  /\ \E i \in 1..Len(lastCall.ret) :
       /\ lastCall.ret[i].currentReservation # JSUndefined
       /\ lastCall.ret[i].status = "available"
       /\ getTable(Store, lastCall.ret[i].id).status = "available"

\* C9: updateReservation of a stored reservation returns and stores the prior record
\* with exactly the supplied fields replaced (id and createdAt kept), and leaves all
\* other reservations, their order and the counters alone; for an id that is not
\* stored it returns undefined and changes nothing
C9_UpdateMergesFields ==
  [][\A id \in UpdatedIdInputs, updates \in ReservationUpdates :
       (/\ lastCall'.op = "updateReservation"
        /\ lastCall'.arg = <<id, updates>>
        /\ UpdateReservation(id, updates))
       => IF MapHas(reservations, id)
          THEN /\ MapKeys(reservations') = MapKeys(reservations)
               /\ DOMAIN MapGet(reservations', id) = DOMAIN MapGet(reservations, id)
               /\ \A f \in DOMAIN MapGet(reservations, id) :
                    MapGet(reservations', id)[f]
                      = IF f \in DOMAIN updates THEN updates[f] ELSE MapGet(reservations, id)[f]
               /\ MapGet(reservations', id).id = id
               /\ MapGet(reservations', id).createdAt = MapGet(reservations, id).createdAt
               /\ \A other \in MapKeys(reservations) \ {id} :
                    MapGet(reservations', other) = MapGet(reservations, other)
               /\ lastCall'.ret = MapGet(reservations', id)
               /\ currentReservationId' = currentReservationId
          ELSE lastCall'.ret = JSUndefined /\ reservations' = reservations
               /\ currentReservationId' = currentReservationId]_vars

\* sample reservation 1, created after the midnight that followed the constructor's
\* reading of its date, gets the comment "x" and keeps its customer, date and createdAt
C9_Witness ==
  /\ lastCall.op = "updateReservation"
  /\ lastCall.arg = <<1, [comment |-> JSString("x")]>>
  /\ getReservation(Store, 1).comment = JSString("x")
  /\ getReservation(Store, 1).customerName = "Ivan Smirnov"
  /\ getReservation(Store, 1).date = SeedDate
  /\ getReservation(Store, 1).createdAt = StartNow + 1

\* C10: updateReservation leaves the table store as it was
C10_UpdateKeepsTables ==
  [][\A id \in UpdatedIdInputs, updates \in ReservationUpdates :
       (/\ lastCall'.op = "updateReservation"
        /\ lastCall'.arg = <<id, updates>>
        /\ UpdateReservation(id, updates))
       => tables' = tables]_vars

\* sample reservation 1 is moved from table 2 to table 1 and cancelled: table 1 is
\* still available and table 2 still reserved
C10_Witness ==
  /\ steps = 1
  /\ lastCall.op = "updateReservation"
  /\ lastCall.arg[1] = 1
  /\ getReservation(Store, 1).tableId = 1
  /\ getReservation(Store, 1).status = "cancelled"
  /\ getTable(Store, 1).status = "available"
  /\ getTable(Store, 2).status = "reserved"

\* C11: every stored reservation with hasTimeLimit false has startTime and endTime
\* null, in every state reached by createReservation, updateReservation and
\* deleteReservation
C11_NoTimeLimitNoTimesAlways ==
  \A r \in Range(getReservations(Store)) :
    r.hasTimeLimit = FALSE => r.startTime = JSNull /\ r.endTime = JSNull

\* a reservation created with hasTimeLimit true and both times has just had
\* hasTimeLimit set to false by updateReservation
C11_ToggledOff ==
  /\ lastCall.op = "updateReservation"
  /\ lastCall.arg[2] = [hasTimeLimit |-> FALSE]
  /\ lastCall.ret # JSUndefined
  /\ lastCall.ret.tableId = 3
  /\ lastCall.ret.id >= SeededStore.currentReservationId

\* C11 for the update path alone: a reservation whose hasTimeLimit is toggled from
\* true to false by updateReservation has startTime and endTime null afterwards
C11_ToggleClearsTimes ==
  C11_ToggledOff => lastCall.ret.startTime = JSNull /\ lastCall.ret.endTime = JSNull

\* C12: in both stores every record's id is its key, the keys are distinct and below
\* the store's counter; a step never lowers a counter, never changes a stored
\* record's id, and gives every new record an id at or above the counter before
\* the step, so no id is assigned twice
IdsWellFormed(m, counter) ==
  /\ \A i \in 1..Len(m) : m[i][2].id = m[i][1] /\ m[i][1] < counter
  /\ Cardinality(MapKeys(m)) = Len(m)

IdsStep(m, counter, m2, counter2) ==
  /\ counter2 >= counter
  /\ \A k \in MapKeys(m2) \ MapKeys(m) : k >= counter /\ k < counter2
  /\ \A k \in MapKeys(m2) \cap MapKeys(m) : MapGet(m2, k).id = MapGet(m, k).id

\* the state before the first step is checked at steps = 0, the state after every
\* step that changes a store or a counter is checked at that step
C12_IdsUniqueIncreasing ==
  [][/\ steps = 0 => /\ IdsWellFormed(tables, currentTableId)
                     /\ IdsWellFormed(reservations, currentReservationId)
     /\ \/ <<tables, currentTableId>>' = <<tables, currentTableId>>
        \/ /\ IdsWellFormed(tables', currentTableId')
           /\ IdsStep(tables, currentTableId, tables', currentTableId')
     /\ \/ <<reservations, currentReservationId>>' = <<reservations, currentReservationId>>
        \/ /\ IdsWellFormed(reservations', currentReservationId')
           /\ IdsStep(reservations, currentReservationId,
                      reservations', currentReservationId')]_vars

\* sample reservation 3 was deleted and the next reservation got id 4
C12_Witness ==
  /\ Idle
  /\ steps = 2
  /\ lastCall.op = "createReservation"
  /\ lastCall.ret.id = 4
  /\ ~MapHas(reservations, 3)
  /\ MapHas(reservations, 4)
  /\ currentReservationId = 5

\* C15: in every entry of the view, currentReservation is the active reservation of
\* todayReservations that was inserted into the reservation store first; it is
\* undefined exactly when todayReservations holds no active reservation; it belongs to
\* todayReservations, so it is of the entry's table
C15_CurrentIsFirstActive ==
  (Idle /\ lastCall.op = "getTablesWithReservations") =>
    \A i \in 1..Len(lastCall.ret) :
      LET entry == lastCall.ret[i]
          active == {r \in Range(entry.todayReservations) : r.status = "active"}
          current == entry.currentReservation
      IN  IF active = {}
          THEN current = JSUndefined
          ELSE /\ current \in active
               /\ current.tableId = entry.id
               /\ \A r \in active :
                    MapIndex(reservations, current.id) <= MapIndex(reservations, r.id)

\* an entry whose first reservation of the date is cancelled and whose
\* currentReservation is the second one
C15_Witness ==
  /\ Idle
  /\ lastCall.op = "getTablesWithReservations"
  /\ \E i \in 1..Len(lastCall.ret) :
       /\ Len(lastCall.ret[i].todayReservations) = 2
       /\ lastCall.ret[i].todayReservations[1].status = "cancelled"
       /\ lastCall.ret[i].currentReservation = lastCall.ret[i].todayReservations[2]

\* C16: in every state reached from the seeded store by createReservation and
\* deleteReservation calls only, the day not changing, once the calls made have
\* returned, a table with a stored reservation that is active and dated today is
\* not available
C16_BookedTodayNotAvailable ==
  Idle =>
  \A i \in 1..Len(getTables(Store)) :
    TodayActive(reservations, getTables(Store)[i].id, Today) # {}
      => getTables(Store)[i].status # "available"

\* the step changes, in the table store, exactly the fields of `updates` of table id,
\* and nothing else in the store; it changes nothing when no table has that id
TableMerged(id, updates, ret) ==
  /\ reservations' = reservations
  /\ currentTableId' = currentTableId
  /\ currentReservationId' = currentReservationId
  /\ IF MapHas(tables, id)
     THEN /\ Len(tables') = Len(tables)
          /\ \A i \in 1..Len(tables) :
               /\ tables'[i][1] = tables[i][1]
               /\ IF tables[i][1] = id
                  THEN /\ tables'[i][2] =
                            [f \in DOMAIN tables[i][2] |->
                               IF f \in DOMAIN updates THEN updates[f] ELSE tables[i][2][f]]
                       /\ ret = tables'[i][2]
                  ELSE tables'[i][2] = tables[i][2]
     ELSE /\ tables' = tables
          /\ ret = JSUndefined

\* C17: updateTable changes exactly the supplied fields of the one table and nothing
\* else in the store; updateTableStatus(id, s) does what updateTable(id, {status: s})
\* does; both return undefined and change nothing when no table has the id
C17_UpdateTableMerges ==
  [][/\ lastCall'.op = "updateTable" =>
          \A id \in TableIdInputs, updates \in TableUpdates :
            (lastCall'.arg = <<id, updates>> /\ UpdateTable(id, updates))
              => TableMerged(id, updates, lastCall'.ret)
     /\ lastCall'.op = "updateTableStatus" =>
          \A id \in TableIdInputs, status \in TableStatuses :
            (lastCall'.arg = <<id, status>> /\ UpdateTableStatus(id, status))
              => /\ TableMerged(id, [status |-> status], lastCall'.ret)
                 /\ Store' = updateTable(Store, id, [status |-> status]).store
                 /\ lastCall'.ret = updateTable(Store, id, [status |-> status]).ret]_vars

\* occupied table 3 was renamed and moved: its name and position are the supplied
\* ones, its status and capacity the seeded ones
C17_Witness ==
  /\ lastCall.op = "updateTable"
  /\ lastCall.arg[1] = 3
  /\ "name" \in DOMAIN lastCall.arg[2]
  /\ getTable(Store, 3).name = JSString("VIP")
  /\ getTable(Store, 3).x = 10
  /\ getTable(Store, 3).status = "occupied"
  /\ getTable(Store, 3).capacity = 4
  /\ getTable(Store, 1).status = "available"

\* the step keeps the tables' keys and order and changes at most the status of
\* table tableId
OnlyStatusOf(tableId) ==
  /\ currentTableId' = currentTableId
  /\ \/ tables' = tables
     \/ /\ Len(tables') = Len(tables)
        /\ \A i \in 1..Len(tables) :
             /\ tables'[i][1] = tables[i][1]
             /\ \/ tables'[i][2] = tables[i][2]
                \/ /\ tables[i][1] = tableId
                   /\ [tables'[i][2] EXCEPT !.status = tables[i][2].status] = tables[i][2]

\* C18: every step of createReservation and deleteReservation changes at most the
\* status of the table the created or deleted reservation refers to, changes no other
\* stored reservation, and creates or removes no table; no step at all removes a
\* table id
C18_ReservationFrame ==
  [][/\ tables' = tables \/ MapKeys(tables) \subseteq MapKeys(tables')
     /\ (Len(tasks') = Len(tasks) + 1 /\ tasks'[Len(tasks')].op = "createReservation") =>
          \A reservation \in ReservationInputs :
            BeginCreateReservation(reservation)
              => /\ OnlyStatusOf(reservation.tableId)
                 /\ Range(reservations) \subseteq Range(reservations')
     /\ (/\ steps' = steps + 1
         /\ \/ Len(tasks') = Len(tasks) + 1 /\ tasks'[Len(tasks')].op = "deleteReservation"
            \/ tasks' = tasks /\ lastCall'.op = "deleteReservation") =>
          \A id \in ReservationIdInputs :
            BeginDeleteReservation(id)
              => /\ {e \in Range(reservations) : e[1] # id} \subseteq Range(reservations')
                 /\ tables' = tables
                 /\ currentTableId' = currentTableId
     /\ \A i \in 1..Len(tasks) :
          /\ (Resumes(i, "createReservation") /\ ResumeCreateReservation(i))
               => UNCHANGED store
          /\ (/\ Resumes(i, "deleteReservation")
              /\ ResumeDeleteReservation(i) \/ FinishDeleteReservation(i))
               => /\ OnlyStatusOf(tasks[i].loc.reservation.tableId)
                  /\ reservations' = reservations]_vars

\* sample reservation 2 was deleted: its table 3 went from occupied to available with
\* its name and capacity kept, tables 2 and 5 are still reserved and their
\* reservations 1 and 3 still stored as constructed, midnight having passed between
\* the constructor's clock reads for them
C18_Witness ==
  /\ Idle
  /\ lastCall.op = "deleteReservation"
  /\ lastCall.arg = <<2>>
  /\ getTable(Store, 3).status = "available"
  /\ getTable(Store, 3).capacity = MapGet(SeededStore.tables, 3).capacity
  /\ getTable(Store, 3).name = MapGet(SeededStore.tables, 3).name
  /\ getTable(Store, 2).status = "reserved"
  /\ getTable(Store, 5).status = "reserved"
  /\ getReservation(Store, 1) = [MapGet(SeededStore.reservations, 1) EXCEPT !.createdAt = StartNow]
  /\ getReservation(Store, 3) = [MapGet(SeededStore.reservations, 3) EXCEPT !.createdAt = StartNow + 1]

\* C19: createReservation with a tableId of no table stores the reservation under a
\* fresh id, returns it and leaves the table store as it was; no entry of
\* getTablesWithReservations lists a reservation of a missing table, whatever the
\* date; deleting such a reservation returns true and leaves the table store as it was
C19_DanglingTableId ==
  [][/\ steps' = steps + 1 =>
          \A reservation \in ReservationInputs :
            (~MapHas(tables, reservation.tableId) /\ BeginCreateReservation(reservation))
              => /\ tables' = tables
                 /\ currentTableId' = currentTableId
                 /\ ~MapHas(reservations, currentReservationId)
                 /\ MapHas(reservations', currentReservationId)
                 /\ MapGet(reservations', currentReservationId).tableId = reservation.tableId
     /\ \A i \in 1..Len(tasks) :
          /\ (/\ Returns(i, "createReservation")
              /\ ResumeCreateReservation(i)
              /\ ~MapHas(tables, tasks[i].arg[1].tableId))
               => /\ lastCall'.ret = MapGet(reservations', lastCall'.ret.id)
                  /\ lastCall'.ret.tableId = tasks[i].arg[1].tableId
                  /\ UNCHANGED store
          /\ (Returns(i, "getTablesWithReservations") /\ ResumeGetReservationsByTable(i))
               => \A k \in 1..Len(lastCall'.ret) :
                    \A r \in Range(lastCall'.ret[k].todayReservations) :
                      MapHas(tables, r.tableId)
          /\ (/\ Resumes(i, "deleteReservation")
              /\ ResumeDeleteReservation(i) \/ FinishDeleteReservation(i)
              /\ ~MapHas(tables, tasks[i].loc.reservation.tableId))
               => /\ tables' = tables
                  /\ currentTableId' = currentTableId
                  /\ Returns(i, "deleteReservation") => lastCall'.ret = TRUE]_vars

\* a reservation of the missing table 0 was created and the view of its date then
\* computed: the reservation is stored and no entry of the view holds it
C19_Witness ==
  /\ Idle
  /\ steps = 2
  /\ lastCall.op = "getTablesWithReservations"
  /\ \E r \in Range(getReservations(Store)) :
       /\ r.tableId = 0
       /\ r.id = SeededStore.currentReservationId
       /\ r.date = targetDateOf(lastCall.arg, lastCall.at)
  /\ tables = SeededStore.tables
  /\ Len(lastCall.ret) = Len(tables)
  /\ \A k \in 1..Len(lastCall.ret) :
       \A r \in Range(lastCall.ret[k].todayReservations) : r.tableId # 0

\* a reservation of the missing table 0 was created and then deleted: the call
\* returned true and the tables are the seeded ones
C19_DeletedCase ==
  /\ Idle
  /\ steps = 2
  /\ lastCall.op = "deleteReservation"
  /\ lastCall.arg = <<SeededStore.currentReservationId>>
  /\ lastCall.ret = TRUE
  /\ currentReservationId = SeededStore.currentReservationId + 1
  /\ \A r \in Range(getReservations(Store)) : r.tableId # 0
  /\ tables = SeededStore.tables

\* the fields of an InsertTable that may be omitted, with the values createTable
\* documents for them
TableDefaults ==
  [name |-> JSNull, status |-> "available", shape |-> "round", hallId |-> "white"]

\* the values createTable takes as not set: a missing field, null and the empty string
Unset(table, f) ==
  \/ f \notin DOMAIN table
  \/ f = "name" /\ table[f] \in {JSNull, JSString("")}
  \/ f # "name" /\ table[f] = ""

\* C20 as stated: the record createTable returns holds every supplied value as given
\* and the default for every omitted field
C20_SuppliedStoredAsGiven ==
  lastCall.op = "createTable" =>
    \A f \in DOMAIN lastCall.ret \ {"id"} :
      lastCall.ret[f] = IF f \in DOMAIN lastCall.arg[1]
                        THEN lastCall.arg[1][f]
                        ELSE TableDefaults[f]

\* C20: createTable stores, under the next table id, a record with every field: the
\* default for each optional field that is omitted or empty, every other supplied value
\* as given (a supplied status of reserved or occupied too); the tables stored before
\* and the reservations are unchanged
C20_CreateTableDefaults ==
  [][lastCall'.op = "createTable" =>
       \A table \in TableInputs :
         (lastCall'.arg = <<table>> /\ CreateTable(table))
           => /\ lastCall'.ret.id = currentTableId
              /\ currentTableId' = currentTableId + 1
              /\ tables' = Append(tables, <<currentTableId, lastCall'.ret>>)
              /\ reservations' = reservations
              /\ currentReservationId' = currentReservationId
              /\ DOMAIN lastCall'.ret = {"id"} \cup DOMAIN table \cup DOMAIN TableDefaults
              /\ \A f \in DOMAIN lastCall'.ret \ {"id"} :
                   lastCall'.ret[f] = IF f \in DOMAIN TableDefaults /\ Unset(table, f)
                                      THEN TableDefaults[f]
                                      ELSE table[f]]_vars

\* a table was created from an input with an empty name and the status occupied: it
\* is stored with no name and the status occupied, next to the 15 seeded tables
C20_Witness ==
  /\ lastCall.op = "createTable"
  /\ "name" \in DOMAIN lastCall.arg[1]
  /\ lastCall.arg[1].name = JSString("")
  /\ lastCall.ret.name = JSNull
  /\ lastCall.ret.status = "occupied"
  /\ lastCall.ret.shape = "rectangular"
  /\ getTable(Store, lastCall.ret.id) = lastCall.ret
  /\ Len(getTables(Store)) = Len(defaultTables) + 1

\* the store of the initial state
\* C13: on the store of a construction during which no midnight passes, when a
\* deleteReservation of a stored reservation and a createReservation of an active
\* reservation dated today for the same table T, the only two calls made, have
\* both returned, the store is the one that one of the two orders of the awaited calls
\* yields, and T is not available while an active reservation of T dated today is
\* stored
C13_DeleteCreateAtomic ==
  [][(/\ steps = 2
      /\ Len(tasks) = 1
      /\ tasks' = <<>>
      /\ {lastCall.op, lastCall'.op} = {"deleteReservation", "createReservation"}
      /\ now = StartNow)
     => LET d == IF lastCall.op = "deleteReservation" THEN lastCall ELSE lastCall'
            c == IF lastCall.op = "deleteReservation" THEN lastCall' ELSE lastCall
            id == d.arg[1]
            reservation == c.arg[1]
            T == reservation.tableId
            deleteThenCreate ==
              createReservation(deleteReservation(SeededStore, id, now).store,
                                reservation, now).store
            createThenDelete ==
              deleteReservation(createReservation(SeededStore, reservation, now).store,
                                id, now).store
        IN  (/\ MapHas(SeededStore.reservations, id)
             /\ MapGet(SeededStore.reservations, id).tableId = T
             /\ c.ret.status = "active"
             /\ c.ret.date = Today)
            => /\ Store' \in {deleteThenCreate, createThenDelete}
               /\ TodayActive(reservations', T, Today) # {}
                    => MapGet(tables', T).status # "available"]_vars

\* C14: on the store of a construction during which no midnight passes, when
\* getTablesWithReservations and one createReservation or deleteReservation,
\* the only two calls made, have both returned, the view returned is the view of the
\* store before the write or of the store after it
C14_ViewOfOneStore ==
  [][(/\ steps = 2
      /\ Len(tasks) = 1
      /\ tasks' = <<>>
      /\ "getTablesWithReservations" \in {lastCall.op, lastCall'.op}
      /\ {lastCall.op, lastCall'.op} \cap {"createReservation", "deleteReservation"} # {}
      /\ now = StartNow)
     => LET v == IF lastCall.op = "getTablesWithReservations" THEN lastCall ELSE lastCall'
            w == IF lastCall.op = "getTablesWithReservations" THEN lastCall' ELSE lastCall
            before == SeededStore
            after == IF w.op = "createReservation"
                     THEN createReservation(SeededStore, w.arg[1], now).store
                     ELSE deleteReservation(SeededStore, w.arg[1], now).store
        IN  v.ret \in {getTablesWithReservations(before, v.arg, now).ret,
                       getTablesWithReservations(after, v.arg, now).ret}]_vars

\* a getTablesWithReservations call that is awaited before the next call is made
\* returns the view of the store it is called on
ViewAloneAsAwaited ==
  (Idle /\ lastCall.op = "getTablesWithReservations")
    => lastCall.ret = getTablesWithReservations(Store, lastCall.arg, lastCall.at).ret

====
